---- MODULE Spec2Model ----
(***************************************************************************)
(* EpicMe MCP server: the reactive capability / notification layer         *)
(* (resources-solution.ts, prompts-solution.ts, subscriptions-solution.ts) *)
(* and the cancellable render job (video.ts).                              *)
(*                                                                         *)
(* One action is one run of code between two yield points of the event     *)
(* loop (an await, a timer, an I/O callback).                              *)
(***************************************************************************)
EXTENDS Integers, Sequences, FiniteSets, TLC

\* ------------------------------------------------------------------ bounds
MaxId == 2          \* entry ids and tag ids are 1..MaxId
MaxMutations == 3   \* store mutations per behaviour
MaxInFlight == 2    \* change publishes whose handlers are still running
MaxTicks == 1       \* media-watcher dispatches still running
MaxReports == 2     \* progress lines one renderer process writes
MaxJobs == 2        \* render jobs (calls of createWrappedVideo)
MaxHandlers == 3    \* subscribers of the media bus that subscribe or unsubscribe
MaxSuggestions == 2 \* items of the array a sampling response holds
MaxListed == 2      \* ids one list of a change descriptor holds
MaxEntries == 4     \* entries handed to createWrappedVideo
MaxContent == 2     \* content length of such an entry
MaxClients == 2     \* clients whose requests reach the subscription set

Ids == 1..MaxId
Jobs == 1..MaxJobs
Years == {2024, 2025}

\* ------------------------------------------------------------ identities
\* `epicme://entries/${entryId}`
EntryUri(entryId) == <<"epicme://entries/", entryId>>
\* `epicme://tags/${tagId}`
TagUri(tagId) == <<"epicme://tags/", tagId>>
\* `wrapped-${year}.mp4`
VideoFilename(year) == <<"wrapped-", year, ".mp4">>
\* `epicme://videos/${video}`
VideoUri(video) == <<"epicme://videos/", video>>

VideoFiles == {VideoFilename(y) : y \in Years}

\* The URIs clients ask for in subscribe / unsubscribe requests.
ClientUris == {EntryUri(1), TagUri(1), VideoUri(VideoFilename(2024))}

Caps == {"suggest_tags", "tags", "tag", "entry", "video"}
ResourceCaps == {"tags", "tag", "entry", "video"}

VARIABLES
    phase,            \* position of main(): init() steps, then connected
    entries,          \* ids of the entries in the store
    tags,             \* ids of the tags in the store
    videos,           \* files listed in ./videos
    enabled,          \* enabled flag of each gated capability
    uriSubscriptions, \* the subscription set
    resubscribed,     \* history: URIs subscribed again while in the set
    wanted,           \* history: <<client, uri>> subscribed and not since unsubscribed
    pubs,             \* change publishes in flight, oldest first
    mticks,           \* media-watcher dispatch handlers in flight
    sent,             \* notifications the latest step handed to the transport
    nMutations,       \* store mutations so far
    jobs,             \* the render jobs (calls of createWrappedVideo)
    call              \* a function called on its own: its arguments and its result

vars == <<phase, entries, tags, videos, enabled, uriSubscriptions,
          resubscribed, wanted, pubs, mticks, sent, nMutations, jobs, call>>

\* ------------------------------------------------------------ helpers
RemoveAt(s, i) == [k \in 1..(Len(s) - 1) |-> IF k < i THEN s[k] ELSE s[k + 1]]

\* fs.readdir('./videos'): the file names in directory order
RECURSIVE ReadDir(_)
ReadDir(files) ==
    IF files = {} THEN <<>>
    ELSE LET f == CHOOSE x \in files : \A y \in files : x[2] <= y[2]
         IN <<f>> \o ReadDir(files \ {f})

\* ./videos is missing or cannot be read: fs.readdir rejects.
NoDirectory == {<<"ENOENT">>}

\* A catch that hands the error on as the only item of the list.
ReaddirOrError(dir) ==
    IF dir = NoDirectory THEN <<<<"ENOENT">>>> ELSE ReadDir(dir)

\* `fs.readdir('./videos').catch(() => [])`
ReaddirOrEmpty(dir) ==
    IF dir = NoDirectory THEN <<>> ELSE ReadDir(dir)

\* listVideos(): an unreadable directory reads as the empty list
ListVideos == ReaddirOrEmpty(videos)

Zero == [prompts |-> 0, resources |-> 0]

\* No function is being called on its own.
NoCall == [fn |-> "none"]

\* A server whose transport is attached before init() runs.
ConnectedBeforeInit == TRUE

\* McpServer.sendXListChanged() reaches the transport only once connected.
Connected == phase = "running"

\* ------------------------------------------------ capability predicates
\* updateResources with the tag block reaching the tag list resource only
UpdateResourcesFlagsListOnly(en, hasEntries, hasTags, hasVideos) ==
    [c \in Caps |->
        CASE c = "tags"  -> hasTags
          [] c = "entry" -> hasEntries
          [] c = "video" -> hasVideos
          [] OTHER       -> en[c]]

\* updateResources: the flags its if/else blocks leave behind.
UpdateResourcesFlags(en, hasEntries, hasTags, hasVideos) ==
    [c \in Caps |->
        CASE c = "tags"  -> hasTags
          [] c = "tag"   -> hasTags
          [] c = "entry" -> hasEntries
          [] c = "video" -> hasVideos
          [] OTHER       -> en[c]]

\* updatePrompts: the flag its if/else block leaves behind.
UpdatePromptsFlags(en, hasEntries) ==
    [en EXCEPT !["suggest_tags"] = hasEntries]

\* enable() / disable() called without the `enabled` test: a recompute that
\* changes no flag still notifies once.
FlipsOrRedundant(old, new) ==
    IF old = new THEN 1 ELSE Cardinality({c \in Caps : old[c] # new[c]})

\* enable() / disable() run only where the flag differs from the wanted one.
Flips(old, new) == Cardinality({c \in Caps : old[c] # new[c]})

\* notifications/<kind>/list_changed and notifications/resources/updated
ListChangedNote(kind) == [method |-> <<kind, "list_changed">>, uri |-> <<>>]
UpdatedNote(uri) == [method |-> <<"resources", "updated">>, uri |-> uri]

\* A gate that batches the flips of one recompute into one notification.
ListChangedBatched(kind, n) ==
    IF Connected /\ n > 0 THEN <<ListChangedNote(kind)>> ELSE <<>>

\* n calls of enable() / disable() (or of sendResourceListChanged): one
\* list-changed each, once the server is connected
ListChanged(kind, n) ==
    IF Connected THEN [k \in 1..n |-> ListChangedNote(kind)] ELSE <<>>

\* ------------------------------------------------------- change bus (db)
AllUris == {EntryUri(i) : i \in Ids} \cup {TagUri(i) : i \in Ids}
             \cup {VideoUri(v) : v \in VideoFiles}

\* A dispatch that builds every URI as an entry URI, whatever the kind.
MapUriKindBlind(ids, kind) == [k \in 1..Len(ids) |-> EntryUri(ids[k])]

\* The identities a change descriptor implicates, in the order the dispatch
\* handler visits them: changes.entries first, then changes.tags.
RECURSIVE MapUri(_, _)
MapUri(ids, kind) ==
    IF ids = <<>> THEN <<>>
    ELSE <<IF kind = "entries" THEN EntryUri(Head(ids)) ELSE TagUri(Head(ids))>>
            \o MapUri(Tail(ids), kind)

AffectedUris(desc) == MapUri(desc.entries, "entries") \o MapUri(desc.tags, "tags")

\* A dispatch loop without the `uriSubscriptions.has(uri)` test.
DropNothing(uris, subs) == uris

\* The synchronous part of the dispatch loops: URIs that are not subscribed
\* are passed over without yielding.
RECURSIVE DropUnsubscribed(_, _)
DropUnsubscribed(uris, subs) ==
    IF uris = <<>> THEN <<>>
    ELSE IF Head(uris) \in subs THEN uris
    ELSE DropUnsubscribed(Tail(uris), subs)

\* db.subscribe order: sendResourceListChanged, updateResources,
\* updatePrompts, the subscription dispatch. The first subscriber is
\* synchronous and runs inside the publish call itself.
NewPublish(desc) ==
    [desc |-> desc, h |-> "updateResources", pc |-> "entries",
     hasEntries |-> FALSE, hasTags |-> FALSE, hasVideos |-> FALSE,
     rest |-> AffectedUris(desc),
     flips |-> Zero,
     lc |-> [prompts |-> 0, resources |-> Len(ListChanged("resources", 1))],
     upd |-> <<>>]

\* A committed mutation publishes exactly one change descriptor.
Publish(desc) ==
    /\ pubs' = Append(pubs, NewPublish(desc))
    /\ sent' = ListChanged("resources", 1)
    /\ nMutations' = nMutations + 1

CanMutate ==
    /\ phase = "running"
    /\ nMutations < MaxMutations
    /\ Len(pubs) < MaxInFlight

\* ------------------------------------------------- render job (video.ts)
MockSteps == 10              \* `const step = mockTime / 10`
totalDurationSeconds == 60   \* `const totalDurationSeconds = 60`

\* The mockTime arguments: 0 (or absent) selects the real path.
MockTimes == {0, 10}
\* Seconds parsed from a `time=HH:MM:SS.FF` line of the renderer's stderr.
ReportSeconds == {30, 90}
\* Exit codes of a renderer that was not killed.
ExitCodes == {0, 1}

\* A progress value is the fraction num / den.
Fraction(num, den) == [num |-> num, den |-> den]
One == Fraction(1, 1)
Leq(a, b) == a.num * b.den <= b.num * a.den

\* `Math.min(currentSeconds / totalDurationSeconds, 1)`
RealProgress(currentSeconds) ==
    IF Leq(One, Fraction(currentSeconds, totalDurationSeconds))
    THEN One
    ELSE Fraction(currentSeconds, totalDurationSeconds)

Cancelled(year) == [kind |-> "cancelled", year |-> year, code |-> 0, uri |-> <<>>]
Succeeded(year) ==
    [kind |-> "success", year |-> year, code |-> 0,
     uri |-> VideoUri(VideoFilename(year))]
Failed(year, code) == [kind |-> "failed", year |-> year, code |-> code, uri |-> <<>>]
\* The job rejects with an error thrown out of notifySubscribers().
Threw(year) == [kind |-> "threw", year |-> year, code |-> 0, uri |-> <<>>]
NoOutcome == [kind |-> "none", year |-> 0, code |-> 0, uri |-> <<>>]

\* A close handler that resolves whatever the exit code.
CloseOutcomeIgnoresCode(aborted, code, year) ==
    IF aborted THEN Cancelled(year) ELSE Succeeded(year)

\* A close handler that tests the exit code before the signal.
CloseOutcomeCodeFirst(aborted, code, year) ==
    IF code = 0 THEN Succeeded(year)
    ELSE IF aborted THEN Cancelled(year)
    ELSE Failed(year, code)

\* The close handler of the renderer process.
CloseOutcome(aborted, code, year) ==
    IF aborted THEN Cancelled(year)
    ELSE IF code = 0 THEN Succeeded(year)
    ELSE Failed(year, code)

\* A call without the pre-flight check.
PreflightSkipped(aborted) == FALSE

\* The pre-flight check: `if (signal?.aborted) throw ...`
PreflightCancelled(aborted) == aborted

\* The check at the top of each iteration of the mock loop.
MockStepCancelled(aborted) == aborted

IdleJob ==
    [pc |-> "idle", mockTime |-> 0, year |-> 0,
     aborted |-> FALSE,      \* signal.aborted
     preAborted |-> FALSE,   \* signal.aborted when createWrappedVideo was called
     listener |-> FALSE,     \* onAbort is registered on the signal
     i |-> 0,                \* the mock loop's counter
     proc |-> "none",        \* the renderer process: none, running, exited, closed
     killed |-> FALSE,       \* ffmpeg.killed
     code |-> 0,             \* exit code (-1: terminated by SIGKILL, code null)
     closeAborted |-> FALSE, \* signal.aborted when the close handler ran
     mkdir |-> FALSE,        \* ./videos was created
     spawned |-> 0,          \* renderer processes spawned
     notified |-> 0,         \* calls of notifySubscribers
     invoked |-> 0,          \* subscribers those calls invoked
     progress |-> <<>>,      \* the values passed to onProgress
     outcome |-> NoOutcome]

\* ------------------------------------------------------------- startup
\* main() before init(): the registered capabilities start enabled, the
\* store and the videos directory hold what an earlier run left.
InitServer ==
    /\ phase = "initializeResources"
    /\ enabled = [c \in Caps |-> TRUE]
    /\ uriSubscriptions = {}
    /\ resubscribed = {}
    /\ wanted = {}
    /\ pubs = <<>>
    /\ mticks = <<>>
    /\ sent = <<>>
    /\ nMutations = 0
    /\ jobs = [j \in Jobs |-> IdleJob]

Init ==
    /\ InitServer
    /\ call = NoCall
    /\ entries \in {{}, {1}}
    /\ tags \in {{}, {1}}
    /\ videos \in {{}, {VideoFilename(2024)}}

\* A store that holds every entry and tag, for the subscription dispatch.
InitSubs ==
    /\ InitServer
    /\ call = NoCall
    /\ entries = Ids
    /\ tags = Ids
    /\ videos = {}

\* An empty store, for the render jobs; ./videos is empty or holds one file.
InitVideo ==
    /\ InitServer
    /\ call = NoCall
    /\ entries = {}
    /\ tags = {}
    /\ videos \in {{}, {VideoFilename(2024)}}

\* initializeResources: registers the subscribers, then `await updateResources()`
InitializeResources ==
    /\ phase = "initializeResources"
    /\ LET new == UpdateResourcesFlags(enabled, entries # {}, tags # {}, ListVideos # <<>>)
       IN /\ enabled' = new
          /\ sent' = ListChanged("resources", Flips(enabled, new))
    /\ phase' = "initializePrompts"
    /\ UNCHANGED <<entries, tags, videos, uriSubscriptions, resubscribed, wanted, pubs, mticks, nMutations, jobs, call>>

\* initializePrompts: registers the subscriber, then `await updatePrompts()`
InitializePrompts ==
    /\ phase = "initializePrompts"
    /\ LET new == UpdatePromptsFlags(enabled, entries # {})
       IN /\ enabled' = new
          /\ sent' = ListChanged("prompts", Flips(enabled, new))
    /\ phase' = "connect"
    /\ UNCHANGED <<entries, tags, videos, uriSubscriptions, resubscribed, wanted, pubs, mticks, nMutations, jobs, call>>

\* main(): agent.server.connect(transport)
Connect ==
    /\ phase = "connect"
    /\ phase' = "running"
    /\ UNCHANGED <<entries, tags, videos, enabled, uriSubscriptions, resubscribed, wanted, pubs,
                   mticks, sent, nMutations, jobs, call>>

\* ---------------------------------------------------------------- tools
\* A tool that goes on to the store without looking the id up first.
FoundUnchecked(store, id) == TRUE

\* `const existing = await agent.db.getEntry(id)` (or getTag) followed by
\* `invariant(existing, ... not found)`: the tool goes on only with a record.
Found(store, id) == id \in store

\* update_tag makes no lookup of its own: the id goes straight to the store's
\* updateTag, whose direct lookup fails for an id it does not hold.
StoreFinds(store, id) == id \in store

\* The result of a tool whose handler threw: isError with the error's message.
ErrorResult(message) == [method |-> <<"tools/call", "isError">>, uri |-> message]
\* `Entry with ID "${id}" not found`
EntryNotFoundError(id) == <<"Entry with ID", id, "not found">>
\* `Tag ID "${id}" not found`, `Tag ${tagId} not found`
TagNotFoundError(id) == <<"Tag", id, "not found">>

CreateEntry(id) ==
    /\ CanMutate
    /\ id \notin entries
    /\ entries' = entries \cup {id}
    /\ Publish([entries |-> <<id>>, tags |-> <<>>])
    /\ UNCHANGED <<phase, tags, videos, enabled, uriSubscriptions, resubscribed, wanted, mticks, jobs, call>>

UpdateEntry(id) ==
    /\ CanMutate
    /\ Found(entries, id)
    /\ Publish([entries |-> <<id>>, tags |-> <<>>])
    /\ UNCHANGED <<phase, entries, tags, videos, enabled, uriSubscriptions, resubscribed, wanted, mticks, jobs, call>>

DeleteEntry(id) ==
    /\ CanMutate
    /\ Found(entries, id)
    /\ entries' = entries \ {id}
    /\ Publish([entries |-> <<id>>, tags |-> <<>>])
    /\ UNCHANGED <<phase, tags, videos, enabled, uriSubscriptions, resubscribed, wanted, mticks, jobs, call>>

CreateTag(id) ==
    /\ CanMutate
    /\ id \notin tags
    /\ tags' = tags \cup {id}
    /\ Publish([entries |-> <<>>, tags |-> <<id>>])
    /\ UNCHANGED <<phase, entries, videos, enabled, uriSubscriptions, resubscribed, wanted, mticks, jobs, call>>

UpdateTag(id) ==
    /\ CanMutate
    /\ StoreFinds(tags, id)
    /\ Publish([entries |-> <<>>, tags |-> <<id>>])
    /\ UNCHANGED <<phase, entries, tags, videos, enabled, uriSubscriptions, resubscribed, wanted, mticks, jobs, call>>

DeleteTag(id) ==
    /\ CanMutate
    /\ Found(tags, id)
    /\ tags' = tags \ {id}
    /\ Publish([entries |-> <<>>, tags |-> <<id>>])
    /\ UNCHANGED <<phase, entries, videos, enabled, uriSubscriptions, resubscribed, wanted, mticks, jobs, call>>

AddTagToEntry(entryId, tagId) ==
    /\ CanMutate
    /\ Found(tags, tagId)
    /\ Found(entries, entryId)
    /\ Publish([entries |-> <<entryId>>, tags |-> <<tagId>>])
    /\ UNCHANGED <<phase, entries, tags, videos, enabled, uriSubscriptions, resubscribed, wanted, mticks, jobs, call>>

\* get_entry, get_tag: the record is found and returned; nothing changes.
GetEntry(id) ==
    /\ phase = "running"
    /\ Found(entries, id)
    /\ sent' = <<>>
    /\ UNCHANGED <<phase, entries, tags, videos, enabled, uriSubscriptions, resubscribed,
                   wanted, pubs, mticks, nMutations, jobs, call>>

GetTag(id) ==
    /\ phase = "running"
    /\ Found(tags, id)
    /\ sent' = <<>>
    /\ UNCHANGED <<phase, entries, tags, videos, enabled, uriSubscriptions, resubscribed,
                   wanted, pubs, mticks, nMutations, jobs, call>>

\* get_entry, update_entry, delete_entry: the invariant throws.
EntryNotFound(id) ==
    /\ phase = "running"
    /\ ~Found(entries, id)
    /\ sent' = <<ErrorResult(EntryNotFoundError(id))>>
    /\ UNCHANGED <<phase, entries, tags, videos, enabled, uriSubscriptions, resubscribed,
                   wanted, pubs, mticks, nMutations, jobs, call>>

\* get_tag, delete_tag: the invariant throws.
TagNotFound(id) ==
    /\ phase = "running"
    /\ ~Found(tags, id)
    /\ sent' = <<ErrorResult(TagNotFoundError(id))>>
    /\ UNCHANGED <<phase, entries, tags, videos, enabled, uriSubscriptions, resubscribed,
                   wanted, pubs, mticks, nMutations, jobs, call>>

\* update_tag: the store's updateTag fails.
UpdateTagNotFound(id) ==
    /\ phase = "running"
    /\ ~StoreFinds(tags, id)
    /\ sent' = <<ErrorResult(TagNotFoundError(id))>>
    /\ UNCHANGED <<phase, entries, tags, videos, enabled, uriSubscriptions, resubscribed,
                   wanted, pubs, mticks, nMutations, jobs, call>>

\* add_tag_to_entry: both lookups, then the tag's invariant before the entry's.
AddTagToEntryNotFound(entryId, tagId) ==
    /\ phase = "running"
    /\ ~Found(tags, tagId) \/ ~Found(entries, entryId)
    /\ sent' = IF ~Found(tags, tagId)
               THEN <<ErrorResult(TagNotFoundError(tagId))>>
               ELSE <<ErrorResult(EntryNotFoundError(entryId))>>
    /\ UNCHANGED <<phase, entries, tags, videos, enabled, uriSubscriptions, resubscribed,
                   wanted, pubs, mticks, nMutations, jobs, call>>

\* ------------------------------------------- subscribe / unsubscribe
\* A subscription container in which a second add undoes the first.
SetAddToggle(set, x) == IF x \in set THEN set \ {x} ELSE set \cup {x}

\* Set.prototype.clear in the place of delete
SetClear(set, x) == {}

\* Set.prototype.add and Set.prototype.delete
SetAdd(set, x) == set \cup {x}
SetDelete(set, x) == set \ {x}

\* SubscribeRequestSchema handler: the request of any client reaches the one
\* module-level set; the handler reads `params.uri` and nothing of the sender.
SubscribeFrom(client, uri) ==
    /\ phase = "running"
    /\ uriSubscriptions' = SetAdd(uriSubscriptions, uri)
    /\ resubscribed' = IF uri \in uriSubscriptions
                       THEN resubscribed \cup {uri}
                       ELSE resubscribed
    /\ wanted' = wanted \cup {<<client, uri>>}
    /\ UNCHANGED <<phase, entries, tags, videos, enabled, pubs, mticks, nMutations, jobs, call>>
    /\ sent' = <<>>

\* UnsubscribeRequestSchema handler
UnsubscribeFrom(client, uri) ==
    /\ phase = "running"
    /\ uriSubscriptions' = SetDelete(uriSubscriptions, uri)
    /\ resubscribed' = resubscribed \ {uri}
    /\ wanted' = wanted \ {<<client, uri>>}
    /\ UNCHANGED <<phase, entries, tags, videos, enabled, pubs, mticks, nMutations, jobs, call>>
    /\ sent' = <<>>

\* The requests of the client that main() attaches over stdio.
Subscribe(uri) == SubscribeFrom(1, uri)
Unsubscribe(uri) == UnsubscribeFrom(1, uri)

\* ------------------------------------------ handlers of a change publish
\* updateResources: `const entries = await agent.db.getEntries()`
UpdateResourcesGetEntries(i) ==
    /\ pubs[i].h = "updateResources" /\ pubs[i].pc = "entries"
    /\ pubs' = [pubs EXCEPT ![i].hasEntries = entries # {}, ![i].pc = "tags"]
    /\ UNCHANGED <<phase, entries, tags, videos, enabled, uriSubscriptions, resubscribed, wanted, mticks, nMutations, jobs, call>>
    /\ sent' = <<>>

\* updateResources: `const tags = await agent.db.getTags()`
UpdateResourcesGetTags(i) ==
    /\ pubs[i].h = "updateResources" /\ pubs[i].pc = "tags"
    /\ pubs' = [pubs EXCEPT ![i].hasTags = tags # {}, ![i].pc = "videos"]
    /\ UNCHANGED <<phase, entries, tags, videos, enabled, uriSubscriptions, resubscribed, wanted, mticks, nMutations, jobs, call>>
    /\ sent' = <<>>

\* updateResources: `const videos = await listVideos()`
UpdateResourcesListVideos(i) ==
    /\ pubs[i].h = "updateResources" /\ pubs[i].pc = "videos"
    /\ pubs' = [pubs EXCEPT ![i].hasVideos = ListVideos # <<>>, ![i].pc = "apply"]
    /\ UNCHANGED <<phase, entries, tags, videos, enabled, uriSubscriptions, resubscribed, wanted, mticks, nMutations, jobs, call>>
    /\ sent' = <<>>

\* updateResources: the three if/else blocks, after the last await
UpdateResourcesApply(i) ==
    /\ pubs[i].h = "updateResources" /\ pubs[i].pc = "apply"
    /\ LET p == pubs[i]
           new == UpdateResourcesFlags(enabled, p.hasEntries, p.hasTags, p.hasVideos)
           n == Flips(enabled, new)
       IN /\ enabled' = new
          /\ sent' = ListChanged("resources", n)
          /\ pubs' = [pubs EXCEPT ![i] =
                        [p EXCEPT !.h = "updatePrompts", !.pc = "entries",
                                  !.hasEntries = FALSE, !.hasTags = FALSE,
                                  !.hasVideos = FALSE,
                                  !.flips.resources = @ + n,
                                  !.lc.resources = @ + Len(ListChanged("resources", n))]]
    /\ UNCHANGED <<phase, entries, tags, videos, uriSubscriptions, resubscribed, wanted, mticks, nMutations, jobs, call>>

\* updatePrompts: `const entries = await agent.db.getEntries()`
UpdatePromptsGetEntries(i) ==
    /\ pubs[i].h = "updatePrompts" /\ pubs[i].pc = "entries"
    /\ pubs' = [pubs EXCEPT ![i].hasEntries = entries # {}, ![i].pc = "apply"]
    /\ UNCHANGED <<phase, entries, tags, videos, enabled, uriSubscriptions, resubscribed, wanted, mticks, nMutations, jobs, call>>
    /\ sent' = <<>>

\* updatePrompts: the if/else block
UpdatePromptsApply(i) ==
    /\ pubs[i].h = "updatePrompts" /\ pubs[i].pc = "apply"
    /\ LET p == pubs[i]
           new == UpdatePromptsFlags(enabled, p.hasEntries)
           n == Flips(enabled, new)
       IN /\ enabled' = new
          /\ sent' = ListChanged("prompts", n)
          /\ pubs' = [pubs EXCEPT ![i] =
                        [p EXCEPT !.h = "dispatch", !.pc = "loop",
                                  !.hasEntries = FALSE,
                                  !.flips.prompts = @ + n,
                                  !.lc.prompts = @ + Len(ListChanged("prompts", n))]]
    /\ UNCHANGED <<phase, entries, tags, videos, uriSubscriptions, resubscribed, wanted, mticks, nMutations, jobs, call>>

\* The subscription handler of db changes: runs its two loops up to the next
\* `await agent.server.server.notification(...)`, or to the end.
DispatchChanges(i) ==
    /\ pubs[i].h = "dispatch"
    /\ LET p == pubs[i]
           todo == DropUnsubscribed(p.rest, uriSubscriptions)
       IN IF todo = <<>>
          THEN /\ pubs' = [pubs EXCEPT ![i] = [p EXCEPT !.h = "done", !.pc = "done",
                                                      !.rest = <<>>]]
               /\ sent' = <<>>
          ELSE /\ sent' = <<UpdatedNote(Head(todo))>>
               /\ pubs' = [pubs EXCEPT ![i] = [p EXCEPT !.rest = Tail(todo),
                                                      !.upd = Append(@, Head(todo))]]
    /\ UNCHANGED <<phase, entries, tags, videos, enabled, uriSubscriptions, resubscribed, wanted, mticks, nMutations, jobs, call>>

\* The publish has awaited its last handler.
PublishDone(i) ==
    /\ pubs[i].h = "done"
    /\ pubs' = RemoveAt(pubs, i)
    /\ UNCHANGED <<phase, entries, tags, videos, enabled, uriSubscriptions, resubscribed, wanted, mticks, nMutations, jobs, call>>
    /\ sent' = <<>>

HandlerStep(i) ==
    \/ UpdateResourcesGetEntries(i)
    \/ UpdateResourcesGetTags(i)
    \/ UpdateResourcesListVideos(i)
    \/ UpdateResourcesApply(i)
    \/ UpdatePromptsGetEntries(i)
    \/ UpdatePromptsApply(i)
    \/ DispatchChanges(i)
    \/ PublishDone(i)

\* ---------------------------------------------------- media watcher bus
RECURSIVE MapVideoUri(_)
MapVideoUri(files) ==
    IF files = <<>> THEN <<>>
    ELSE <<VideoUri(Head(files))>> \o MapVideoUri(Tail(files))

NewTick == [pc |-> "list", videos |-> <<>>, rest |-> <<>>, upd |-> <<>>]

\* The subscribers of video changes, in registration order:
\* sendResourceListChanged (resources), the video dispatch (subscriptions).
MediaSubscribers == <<"sendResourceListChanged", "videoChangeDispatch">>

\* thrower = 0: no subscriber throws; thrower = n: the n-th subscriber throws
\* when it is called, before it has done anything.
Throwers == 0..Len(MediaSubscribers)

\* `for (const subscriber of subscribers) subscriber()`: the subscribers the
\* loop calls, the thrower included, and those among them that return.
Invoked(thrower) ==
    IF thrower = 0 THEN Len(MediaSubscribers) ELSE thrower
Returned(thrower, n) ==
    n <= Len(MediaSubscribers) /\ (thrower = 0 \/ n < thrower)

\* notifySubscribers() with the subscriber `thrower` throwing: the calls are
\* not awaited and not guarded, so the loop ends at the throw.
NotifySubscribersWith(thrower) ==
    /\ sent' = IF Returned(thrower, 1) THEN ListChanged("resources", 1) ELSE <<>>
    /\ mticks' = IF Returned(thrower, 2) THEN Append(mticks, NewTick) ELSE mticks

\* notifySubscribers(): calls the subscribers in registration order without
\* awaiting them: sendResourceListChanged (resources), then the video
\* dispatch handler (subscriptions), which runs up to `await listVideos()`.
NotifySubscribers == NotifySubscribersWith(0)

\* The subscription handler of video changes: `const videos = await listVideos()`
VideoChangeListVideos(k) ==
    /\ mticks[k].pc = "list"
    /\ mticks' = [mticks EXCEPT ![k].pc = "loop", ![k].videos = ListVideos,
                                ![k].rest = MapVideoUri(ListVideos)]
    /\ sent' = <<>>
    /\ UNCHANGED <<phase, entries, tags, videos, enabled, uriSubscriptions, resubscribed, wanted, pubs,
                   nMutations, jobs, call>>

\* ... and its loop, up to the next awaited notification or to the end.
VideoChangeDispatch(k) ==
    /\ mticks[k].pc = "loop"
    /\ LET t == mticks[k]
           todo == DropUnsubscribed(t.rest, uriSubscriptions)
       IN IF todo = <<>>
          THEN /\ mticks' = RemoveAt(mticks, k)
               /\ sent' = <<>>
          ELSE /\ mticks' = [mticks EXCEPT ![k] = [t EXCEPT !.rest = Tail(todo),
                                                        !.upd = Append(@, Head(todo))]]
               /\ sent' = <<UpdatedNote(Head(todo))>>
    /\ UNCHANGED <<phase, entries, tags, videos, enabled, uriSubscriptions, resubscribed, wanted, pubs,
                   nMutations, jobs, call>>

TickStep(k) ==
    \/ VideoChangeListVideos(k)
    \/ VideoChangeDispatch(k)

\* ------------------------------------------------------ createWrappedVideo
MockFinish(job) ==
    [job EXCEPT !.progress = Append(@, One), !.pc = "done",
                !.outcome = Succeeded(job.year)]

\* The mock loop from its condition `i < mockTime` to the next sleep.
MockLoop(job) ==
    LET progress == Fraction(job.i, job.mockTime)
    IN IF job.i < job.mockTime
       THEN IF MockStepCancelled(job.aborted)
            THEN [job EXCEPT !.pc = "done", !.outcome = Cancelled(job.year)]
            ELSE IF Leq(One, progress)
            THEN MockFinish(job)
            ELSE [job EXCEPT !.progress = Append(@, progress), !.pc = "sleep"]
       ELSE MockFinish(job)

\* The call, up to its first await.
CreateWrappedVideo(j, year, mockTime) ==
    /\ phase = "running"
    /\ jobs[j].pc = "idle"
    /\ LET job == [jobs[j] EXCEPT !.year = year, !.mockTime = mockTime,
                                  !.preAborted = jobs[j].aborted]
       IN jobs' = [jobs EXCEPT ![j] =
                    IF PreflightCancelled(job.aborted)
                    THEN [job EXCEPT !.pc = "done", !.outcome = Cancelled(year)]
                    ELSE IF mockTime > 0
                    THEN MockLoop(job)
                    ELSE [job EXCEPT !.pc = "mkdir"]]
    /\ sent' = <<>>
    /\ UNCHANGED <<phase, entries, tags, videos, enabled, uriSubscriptions, resubscribed, wanted, pubs,
                   mticks, nMutations, call>>

\* The timer of `await new Promise((resolve) => setTimeout(resolve, step))`
MockTimer(j) ==
    /\ jobs[j].pc = "sleep"
    /\ LET step == jobs[j].mockTime \div MockSteps
       IN jobs' = [jobs EXCEPT ![j] = MockLoop([jobs[j] EXCEPT !.i = @ + step])]
    /\ sent' = <<>>
    /\ UNCHANGED <<phase, entries, tags, videos, enabled, uriSubscriptions, resubscribed, wanted, pubs,
                   mticks, nMutations, call>>

\* `await fs.mkdir(...)` returns: the renderer is spawned, its handlers and
\* the abort listener are registered, and the job awaits ffmpegPromise.
MkdirDone(j) ==
    /\ jobs[j].pc = "mkdir"
    /\ jobs' = [jobs EXCEPT ![j].pc = "running", ![j].mkdir = TRUE,
                            ![j].proc = "running", ![j].spawned = @ + 1,
                            ![j].listener = TRUE]
    /\ videos' = IF videos = NoDirectory THEN {} ELSE videos
    /\ sent' = <<>>
    /\ UNCHANGED <<phase, entries, tags, enabled, uriSubscriptions, resubscribed, wanted, pubs,
                   mticks, nMutations, call>>

\* An onAbort that settles the job at once and leaves the process alone.
OnAbortRejects(job) ==
    [job EXCEPT !.pc = "done", !.outcome = Cancelled(job.year), !.listener = FALSE]

\* onAbort: `if (ffmpeg && !ffmpeg.killed) ffmpeg.kill('SIGKILL')`
OnAbort(job) ==
    [job EXCEPT !.killed = IF ~@ THEN job.proc = "running" ELSE @]

\* One child-process handle shared by every job: each abort kills them all.
AbortSharedHandle(js, j) ==
    [k \in DOMAIN js |->
        IF k = j
        THEN OnAbort([js[k] EXCEPT !.aborted = TRUE])
        ELSE IF js[j].listener THEN OnAbort(js[k]) ELSE js[k]]

\* The abort event of job j's signal: it reaches the listener that job j
\* registered, whose `ffmpeg` is the handle of job j's own process.
AbortSignal(js, j) ==
    [js EXCEPT ![j] = IF js[j].listener
                      THEN OnAbort([js[j] EXCEPT !.aborted = TRUE])
                      ELSE [js[j] EXCEPT !.aborted = TRUE]]

\* The caller aborts the job's signal; a registered onAbort runs.
Abort(j) ==
    /\ phase = "running"
    /\ jobs[j].pc # "done"
    /\ ~jobs[j].aborted
    /\ jobs' = AbortSignal(jobs, j)
    /\ sent' = <<>>
    /\ UNCHANGED <<phase, entries, tags, videos, enabled, uriSubscriptions, resubscribed, wanted, pubs,
                   mticks, nMutations, call>>

\* A `time=` line on the renderer's stderr.
FfmpegData(j, currentSeconds) ==
    /\ jobs[j].pc = "running"
    /\ jobs[j].proc = "running"
    /\ Len(jobs[j].progress) < MaxReports
    /\ jobs' = [jobs EXCEPT ![j].progress = Append(@, RealProgress(currentSeconds))]
    /\ sent' = <<>>
    /\ UNCHANGED <<phase, entries, tags, videos, enabled, uriSubscriptions, resubscribed, wanted, pubs,
                   mticks, nMutations, call>>

\* The renderer process ends: by SIGKILL if it was killed, else with a code
\* of its own; a run that ends with code 0 has written the output file, which
\* it cannot do once ./videos is gone.
FfmpegExit(j, code) ==
    /\ jobs[j].proc = "running"
    /\ IF jobs[j].killed THEN code = -1 ELSE code \in ExitCodes
    /\ code = 0 => videos # NoDirectory
    /\ jobs' = [jobs EXCEPT ![j].proc = "exited", ![j].code = code]
    /\ videos' = IF code = 0 THEN videos \cup {VideoFilename(jobs[j].year)} ELSE videos
    /\ sent' = <<>>
    /\ UNCHANGED <<phase, entries, tags, enabled, uriSubscriptions, resubscribed, wanted, pubs,
                   mticks, nMutations, call>>

\* A cleanup attached with .then(): it runs only when the promise resolves.
RemoveOnResolve(listener, ok) == IF ok THEN FALSE ELSE listener

\* `.finally(() => signal?.removeEventListener('abort', onAbort))`
RemoveOnSettle(listener, ok) == FALSE

\* notifySubscribers() moved into the .finally() callback
ReachesNotifyOnSettle(out) == TRUE

\* `await ffmpegPromise.finally(...)` throws on a rejection: line 272 is
\* reached only when the promise resolved.
ReachesNotify(out) == out.kind = "success"

\* The 'close' event: the close handler settles ffmpegPromise, .finally()
\* removes the abort listener, and the job notifies and returns, or throws.
\* thrower names the subscriber that throws in notifySubscribers(), if any.
FfmpegCloseWith(j, thrower) ==
    /\ jobs[j].pc = "running"
    /\ jobs[j].proc = "exited"
    /\ LET job == jobs[j]
           out == CloseOutcome(job.aborted, job.code, job.year)
           ok == out.kind = "success"
           notify == ReachesNotify(out)
       IN /\ ok => Len(mticks) < MaxTicks
          /\ ~ok => thrower = 0
          /\ jobs' = [jobs EXCEPT ![j] =
                        [job EXCEPT !.pc = "done", !.proc = "closed",
                                    !.closeAborted = job.aborted,
                                    !.progress = IF ok THEN Append(@, One) ELSE @,
                                    !.listener = RemoveOnSettle(@, ok),
                                    !.notified = IF notify THEN @ + 1 ELSE @,
                                    !.invoked = IF notify THEN @ + Invoked(thrower) ELSE @,
                                    !.outcome = IF ok /\ thrower # 0
                                                THEN Threw(job.year)
                                                ELSE out]]
          /\ IF notify THEN NotifySubscribersWith(thrower)
                       ELSE /\ sent' = <<>>
                        /\ UNCHANGED mticks
    /\ UNCHANGED <<phase, entries, tags, videos, enabled, uriSubscriptions, resubscribed, wanted, pubs,
                   nMutations, call>>

\* The 'close' event with the subscribers this server registers: both start
\* asynchronous work and return.
FfmpegClose(j) == FfmpegCloseWith(j, 0)

\* ------------------------- the media bus with subscribers that use the bus
\* `const subscribers = new Set<() => void>()`: a Set keeps its entries in
\* insertion order; a deleted entry leaves a hole that iteration passes over.
Handlers == 1..MaxHandlers

\* What a subscriber does when it is called: nothing, subscribe(h), or the
\* unsubscribe function that subscribe(h) returned.
Behaviours ==
    {[op |-> "none", h |-> 1]}
        \cup [op : {"subscribe", "unsubscribe"}, h : Handlers]

\* The registries subscribe() builds: distinct handlers in registration order.
Registries ==
    {s \in UNION {[1..n -> Handlers] : n \in 0..MaxHandlers} :
        \A a \in DOMAIN s, b \in DOMAIN s : s[a] = s[b] => a = b}

SetEntries(s) == [k \in DOMAIN s |-> [h |-> s[k], live |-> TRUE]]

\* subscribe: `subscribers.add(subscriber)`
RegistryAdd(es, h) ==
    IF \E k \in DOMAIN es : es[k].live /\ es[k].h = h
    THEN es
    ELSE Append(es, [h |-> h, live |-> TRUE])

\* the function subscribe returns: `subscribers.delete(subscriber)`
RegistryDelete(es, h) ==
    [k \in DOMAIN es |-> IF es[k].h = h THEN [es[k] EXCEPT !.live = FALSE] ELSE es[k]]

RECURSIVE LiveHandlers(_)
LiveHandlers(es) ==
    IF es = <<>> THEN <<>>
    ELSE (IF Head(es).live THEN <<Head(es).h>> ELSE <<>>) \o LiveHandlers(Tail(es))

\* `for (const subscriber of subscribers) subscriber()`: the loop walks the
\* Set itself, so it reaches entries added while it runs and passes over
\* entries deleted before it reaches them.
RECURSIVE NotifyFrom(_, _, _, _)
NotifyFrom(es, idx, behave, invoked) ==
    IF idx > Len(es) THEN [invoked |-> invoked, after |-> LiveHandlers(es)]
    ELSE IF ~es[idx].live THEN NotifyFrom(es, idx + 1, behave, invoked)
    ELSE LET h == es[idx].h
             b == behave[h]
             es2 == CASE b.op = "subscribe" -> RegistryAdd(es, b.h)
                      [] b.op = "unsubscribe" -> RegistryDelete(es, b.h)
                      [] OTHER -> es
         IN NotifyFrom(es2, idx + 1, behave, Append(invoked, h))

\* One notifySubscribers() call on a registry of such subscribers.
InitNotify ==
    /\ InitServer
    /\ entries = {} /\ tags = {} /\ videos = {}
    /\ call \in {[fn |-> "notifySubscribers", subscribers |-> s, behave |-> b,
                  done |-> FALSE, invoked |-> <<>>, after |-> s] :
                    s \in Registries, b \in [Handlers -> Behaviours]}

NotifyReentrant ==
    /\ call.fn = "notifySubscribers"
    /\ ~call.done
    /\ LET r == NotifyFrom(SetEntries(call.subscribers), 1, call.behave, <<>>)
       IN call' = [call EXCEPT !.done = TRUE, !.invoked = r.invoked, !.after = r.after]
    /\ UNCHANGED <<phase, entries, tags, videos, enabled, uriSubscriptions, resubscribed,
                   wanted, pubs, mticks, sent, nMutations, jobs>>

\* ------------------------------------ ./videos changed by something else
\* A file no render job writes.
ExternalVideo == <<"clip-", 0, ".mp4">>

\* Another process adds a file to ./videos, removes one, or removes the
\* directory. No code of the server runs.
ExternalAddVideo(f) ==
    /\ videos # NoDirectory
    /\ f \notin videos
    /\ videos' = videos \cup {f}
    /\ sent' = <<>>
    /\ UNCHANGED <<phase, entries, tags, enabled, uriSubscriptions, resubscribed, wanted,
                   pubs, mticks, nMutations, jobs, call>>

ExternalRemoveVideo(f) ==
    /\ videos # NoDirectory
    /\ f \in videos
    /\ videos' = videos \ {f}
    /\ sent' = <<>>
    /\ UNCHANGED <<phase, entries, tags, enabled, uriSubscriptions, resubscribed, wanted,
                   pubs, mticks, nMutations, jobs, call>>

ExternalRemoveDirectory ==
    /\ videos # NoDirectory
    /\ videos' = NoDirectory
    /\ sent' = <<>>
    /\ UNCHANGED <<phase, entries, tags, enabled, uriSubscriptions, resubscribed, wanted,
                   pubs, mticks, nMutations, jobs, call>>

\* One entry in the store; ./videos is missing, empty, or holds one file.
InitWatch ==
    /\ InitServer
    /\ call = NoCall
    /\ entries = {1}
    /\ tags = {}
    /\ videos \in {NoDirectory, {}, {VideoFilename(2024)}}

\* ------------------------------------------------- suggestTagsSampling
\* The tag with id n is named TagName(n); NewName is the name of no tag.
TagName(id) == <<"tag", id>>
NewName == <<"new">>

\* Items of a response array: {"id": n}, {"name": s}, and an item that is
\* neither (no id that is a number, no name that is a string).
ExistingRef(id) == [kind |-> "id", id |-> id, name |-> <<>>]
NewTag(name) == [kind |-> "name", id |-> 0, name |-> name]
Junk == [kind |-> "junk", id |-> 0, name |-> <<>>]

SuggestionItems ==
    {ExistingRef(id) : id \in Ids} \cup {NewTag(NewName), NewTag(TagName(1)), Junk}

\* The texts a model answers with: not JSON, a JSON object, a JSON array.
ResponseTexts ==
    {[syntax |-> "garbage", items |-> <<>>], [syntax |-> "object", items |-> <<>>]}
        \cup {[syntax |-> "array", items |-> s] :
                s \in UNION {[1..n -> SuggestionItems] : n \in 0..MaxSuggestions}}

\* The results createMessage resolves with: text content, or image content
\* whose payload stands in the text field.
SamplingResults == [type : {"text", "image"}, text : ResponseTexts]

\* `resultSchema.parse(result)`: content.type must be the literal 'text'
ResultSchemaOk(result) == result.type = "text"

\* `JSON.parse(modelResponse)`
JsonParse(text) ==
    IF text.syntax = "garbage"
    THEN [ok |-> FALSE, array |-> FALSE, items |-> <<>>]
    ELSE [ok |-> TRUE, array |-> text.syntax = "array", items |-> text.items]

\* `z.array(z.union([existingTagSchema, newTagSchema])).parse(...)`
ResponseSchemaOk(value) ==
    value.array /\ \A k \in 1..Len(value.items) : value.items[k].kind \in {"id", "name"}

\* notifications/message sent by sendLoggingMessage
LogNote(level, modelResponse) ==
    [method |-> <<"notifications/message", level>>, uri |-> modelResponse]

\* `!clientCapabilities?.sampling` with the check left out
SamplingAssumed(clientCapabilities) == TRUE

\* `clientCapabilities?.sampling`
SamplingSupported(clientCapabilities) == clientCapabilities.sampling

\* A name that an existing tag bears is replaced by that tag's id.
RECURSIVE ResolveTags(_, _)
ResolveTags(items, existingTags) ==
    IF items = <<>> THEN <<>>
    ELSE LET tag == Head(items)
             hit == {t \in existingTags : TagName(t) = tag.name}
         IN <<IF tag.kind = "name" /\ hit # {}
              THEN ExistingRef(CHOOSE t \in hit : TRUE)
              ELSE tag>> \o ResolveTags(Tail(items), existingTags)

\* An id suggestion taken whatever the id
IsAnyIdSuggestion(tag, existingTags, currentTags) == tag.kind = "id"

\* 'id' in tag, the id is an existing tag's, and the entry does not bear it
IsExistingTagSuggestion(tag, existingTags, currentTags) ==
    tag.kind = "id" /\ tag.id \in existingTags /\ tag.id \notin currentTags

\* 'name' in tag, and no existing tag bears the name
IsNewTagSuggestion(tag, existingTags) ==
    tag.kind = "name" /\ \A t \in existingTags : TagName(t) # tag.name

\* suggestedNewTags: the names to create, in order
RECURSIVE NamesToCreate(_, _)
NamesToCreate(resolved, existingTags) ==
    IF resolved = <<>> THEN <<>>
    ELSE (IF IsNewTagSuggestion(Head(resolved), existingTags)
          THEN <<Head(resolved).name>> ELSE <<>>)
            \o NamesToCreate(Tail(resolved), existingTags)

\* `new Set<number>(suggestedExistingTags.map((t) => t.id))`, in insertion
\* order
RECURSIVE InsertIds(_, _, _, _)
InsertIds(resolved, existingTags, currentTags, acc) ==
    IF resolved = <<>> THEN acc
    ELSE LET tag == Head(resolved)
             new == /\ IsExistingTagSuggestion(tag, existingTags, currentTags)
                    /\ \A k \in 1..Len(acc) : acc[k] # tag.id
         IN InsertIds(Tail(resolved), existingTags, currentTags,
                      IF new THEN Append(acc, tag.id) ELSE acc)

\* The id the store gives the next tag it creates.
NextTagId == 1 + Cardinality(tags)

\* suggestTagsSampling(agent, entryId): the client's capabilities, the tags
\* the entry bears, and the result the sampling request will be answered with.
SamplingCall(entryId, client, entryTags, result) ==
    [fn |-> "suggestTagsSampling", entryId |-> entryId, client |-> client,
     entryTags |-> entryTags, result |-> result,
     pc |-> "called",
     reads |-> 0,          \* store reads made
     requests |-> 0,       \* sampling requests sent
     existingTags |-> {}, currentTags |-> {},
     toCreate |-> <<>>, idsToAdd |-> <<>>,
     created |-> <<>>,     \* the tags createTag made: id and name
     applied |-> <<>>,     \* the tag ids handed to addTagToEntry
     reported |-> <<>>]

\* Entry 1 exists, entry 2 does not; the entry bears some of the tags; the
\* sampling request is answered with any of the results.
InitSampling ==
    /\ InitServer
    /\ entries = {1}
    /\ tags \in {{}, {1}}
    /\ videos = {}
    /\ call \in {SamplingCall(entryId, [sampling |-> sampling], entryTags, result) :
                    entryId \in Ids, sampling \in BOOLEAN,
                    entryTags \in SUBSET tags, result \in SamplingResults}

\* The capability check, the reads of the store and the sampling request
\* (lines 83-95).
SamplingRequest ==
    /\ phase = "running"
    /\ call.fn = "suggestTagsSampling" /\ call.pc = "called"
    /\ call' = IF ~SamplingSupported(call.client)
               THEN [call EXCEPT !.pc = "returned"]
               ELSE IF ~Found(entries, call.entryId)
               THEN [call EXCEPT !.pc = "threw", !.reads = 1]
               ELSE [call EXCEPT !.pc = "createMessage", !.reads = 3, !.requests = 1,
                                 !.existingTags = tags, !.currentTags = call.entryTags]
    /\ sent' = <<>>
    /\ UNCHANGED <<phase, entries, tags, videos, enabled, uriSubscriptions, resubscribed,
                   wanted, pubs, mticks, nMutations, jobs>>

\* createMessage resolves: the result is validated, the text parsed and
\* validated, the suggestions sorted into tags to create and ids to add.
SamplingResponse ==
    /\ phase = "running"
    /\ call.fn = "suggestTagsSampling" /\ call.pc = "createMessage"
    /\ LET result == call.result
           value == JsonParse(result.text)
           resolved == ResolveTags(value.items, call.existingTags)
           names == NamesToCreate(resolved, call.existingTags)
           ids == InsertIds(resolved, call.existingTags, call.currentTags, <<>>)
       IN IF ~ResultSchemaOk(result)
          THEN \* `resultSchema.parse(result)` throws, outside the catch below
               /\ call' = [call EXCEPT !.pc = "threw"]
               /\ sent' = <<>>
          ELSE IF ~value.ok \/ ~ResponseSchemaOk(value)
          THEN \* parseAndProcessTagSuggestions rejects: logged and rethrown
               /\ call' = [call EXCEPT !.pc = "threw",
                                       !.reported = Append(@, result.text)]
               /\ sent' = <<LogNote("error", result.text)>>
          ELSE /\ call' = [call EXCEPT !.toCreate = names, !.idsToAdd = ids,
                                       !.pc = IF names # <<>> THEN "create"
                                              ELSE IF ids # <<>> THEN "add"
                                              ELSE "report"]
               /\ sent' = <<>>
    /\ UNCHANGED <<phase, entries, tags, videos, enabled, uriSubscriptions, resubscribed,
                   wanted, pubs, mticks, nMutations, jobs>>

\* `const newTag = await agent.db.createTag(tag)`; `idsToAdd.add(newTag.id)`
SamplingCreateTag ==
    /\ call.fn = "suggestTagsSampling" /\ call.pc = "create"
    /\ Len(pubs) < MaxInFlight
    /\ tags' = tags \cup {NextTagId}
    /\ Publish([entries |-> <<>>, tags |-> <<NextTagId>>])
    /\ call' = [call EXCEPT !.toCreate = Tail(@),
                            !.idsToAdd = Append(@, NextTagId),
                            !.created = Append(@, [id |-> NextTagId,
                                                   name |-> Head(call.toCreate)]),
                            !.pc = IF Tail(call.toCreate) # <<>> THEN "create" ELSE "add"]
    /\ UNCHANGED <<phase, entries, videos, enabled, uriSubscriptions, resubscribed,
                   wanted, mticks, jobs>>

\* `await agent.db.addTagToEntry({ entryId: entry.id, tagId })`
SamplingAddTag ==
    /\ call.fn = "suggestTagsSampling" /\ call.pc = "add"
    /\ Len(pubs) < MaxInFlight
    /\ Publish([entries |-> <<call.entryId>>, tags |-> <<Head(call.idsToAdd)>>])
    /\ call' = [call EXCEPT !.idsToAdd = Tail(@),
                            !.applied = Append(@, Head(call.idsToAdd)),
                            !.pc = IF Tail(call.idsToAdd) # <<>> THEN "add" ELSE "report"]
    /\ UNCHANGED <<phase, entries, tags, videos, enabled, uriSubscriptions, resubscribed,
                   wanted, mticks, jobs>>

\* The closing `sendLoggingMessage({ level: 'info', ... })`
SamplingReport ==
    /\ call.fn = "suggestTagsSampling" /\ call.pc = "report"
    /\ call' = [call EXCEPT !.pc = "done", !.reads = @ + 2]
    /\ sent' = <<LogNote("info", <<>>)>>
    /\ UNCHANGED <<phase, entries, tags, videos, enabled, uriSubscriptions, resubscribed,
                   wanted, pubs, mticks, nMutations, jobs>>

\* ------------------------------------------------ any change descriptor
\* A change descriptor: an ordered sequence of entry ids and one of tag ids;
\* nothing keeps an id from being listed more than once.
IdLists == UNION {[1..n -> Ids] : n \in 0..MaxListed}
Descriptors == [entries : IdLists, tags : IdLists]

\* The store publishes the descriptor of a committed mutation.
PublishChange(desc) ==
    /\ CanMutate
    /\ Publish(desc)
    /\ UNCHANGED <<phase, entries, tags, videos, enabled, uriSubscriptions, resubscribed,
                   wanted, mticks, jobs, call>>

\* ------------------------------------- createWrappedVideo: the overlays
\* The `entries` argument: the k-th entry has id k and a content length.
\* An entry or `undefined` is a sequence of one entry or of none.
EntryLists ==
    UNION {{[k \in 1..n |-> [id |-> k, length |-> f[k]]] :
                f \in [1..n -> 0..MaxContent]} : n \in 0..MaxEntries}

\* `x?.content.length ?? 0`
LengthOrZero(x) == IF x = <<>> THEN 0 ELSE x[1].length

\* A comparison that lets a later entry of equal length replace the choice.
LongerOrEqual(entry, longest) == entry.length >= LengthOrZero(longest)

\* `entry.content.length > (longest?.content.length ?? 0)`
Longer(entry, longest) == entry.length > LengthOrZero(longest)
\* `entry.content.length < (shortest?.content.length ?? 0)`
Shorter(entry, shortest) == entry.length < LengthOrZero(shortest)

\* `entries.reduce((longest, entry) => ... ? entry : longest, entries[0])`
RECURSIVE ReduceLongest(_, _)
ReduceLongest(es, longest) ==
    IF es = <<>> THEN longest
    ELSE ReduceLongest(Tail(es),
                       IF Longer(Head(es), longest) THEN <<Head(es)>> ELSE longest)

RECURSIVE ReduceShortest(_, _)
ReduceShortest(es, shortest) ==
    IF es = <<>> THEN shortest
    ELSE ReduceShortest(Tail(es),
                        IF Shorter(Head(es), shortest) THEN <<Head(es)>> ELSE shortest)

\* `entries[0]`: undefined for the empty array
First(es) == IF es = <<>> THEN <<>> ELSE <<es[1]>>

LongestEntry(es) == ReduceLongest(es, First(es))
ShortestEntry(es) == ReduceShortest(es, First(es))

\* The `texts` array after `.filter(Boolean)`, each overlay by what it says.
Texts(es, nTags) ==
    <<"hello", "date", "wrapped", "count">>
        \o (IF LongestEntry(es) # <<>> THEN <<"longest">> ELSE <<>>)
        \o (IF ShortestEntry(es) # <<>> THEN <<"shortest">> ELSE <<>>)
        \o (IF Len(es) < 1 THEN <<"no entries">> ELSE <<>>)
        \o (IF nTags > 0 THEN <<"tags">> ELSE <<"no tags">>)
        \o <<"good job", "keep journaling">>

\* One real-mode call with any entries and with or without tags.
InitScene ==
    /\ InitServer
    /\ entries = {} /\ tags = {} /\ videos = {}
    /\ call \in {[fn |-> "createWrappedVideo", entries |-> es, nTags |-> n,
                  done |-> FALSE, longest |-> <<>>, shortest |-> <<>>,
                  texts |-> <<>>] : es \in EntryLists, n \in {0, 1}}

\* Lines 90-164 of the call: the two reduces and the overlay list.
BuildScene ==
    /\ call.fn = "createWrappedVideo"
    /\ ~call.done
    /\ call' = [call EXCEPT !.done = TRUE,
                            !.longest = LongestEntry(call.entries),
                            !.shortest = ShortestEntry(call.entries),
                            !.texts = Texts(call.entries, call.nTags)]
    /\ UNCHANGED <<phase, entries, tags, videos, enabled, uriSubscriptions, resubscribed,
                   wanted, pubs, mticks, sent, nMutations, jobs>>

\* ---------------------------------------------------------- specifications
Startup ==
    \/ InitializeResources
    \/ InitializePrompts
    \/ Connect

\* The store, the change bus and the capability gate.
Next ==
    \/ Startup
    \/ \E id \in Ids : CreateEntry(id)
    \/ \E id \in Ids : UpdateEntry(id)
    \/ \E id \in Ids : DeleteEntry(id)
    \/ \E id \in Ids : CreateTag(id)
    \/ \E id \in Ids : UpdateTag(id)
    \/ \E id \in Ids : DeleteTag(id)
    \/ \E e \in Ids, t \in Ids : AddTagToEntry(e, t)
    \/ \E i \in 1..Len(pubs) : HandlerStep(i)

Spec == Init /\ [][Next]_vars

\* Render jobs called with a signal and a progress callback, and the media
\* watcher bus they publish to.
VideoClientUris == {u \in ClientUris : u[1] = "epicme://videos/"}

NextVideo ==
    \/ Startup
    \/ \E uri \in VideoClientUris : Subscribe(uri)
    \/ \E uri \in VideoClientUris : Unsubscribe(uri)
    \/ \E j \in Jobs, year \in Years, mockTime \in MockTimes :
           CreateWrappedVideo(j, year, mockTime)
    \/ \E j \in Jobs : Abort(j)
    \/ \E j \in Jobs : MockTimer(j)
    \/ \E j \in Jobs : MkdirDone(j)
    \/ \E j \in Jobs, secs \in ReportSeconds : FfmpegData(j, secs)
    \/ \E j \in Jobs, code \in ExitCodes \cup {-1} : FfmpegExit(j, code)
    \/ \E j \in Jobs : FfmpegClose(j)
    \/ \E k \in 1..Len(mticks) : TickStep(k)

SpecVideo == InitVideo /\ [][NextVideo]_vars

\* Render jobs on a media bus whose subscribers may throw.
NextBus ==
    \/ Startup
    \/ \E j \in Jobs, year \in Years : CreateWrappedVideo(j, year, 0)
    \/ \E j \in Jobs : Abort(j)
    \/ \E j \in Jobs : MkdirDone(j)
    \/ \E j \in Jobs, code \in ExitCodes \cup {-1} : FfmpegExit(j, code)
    \/ \E j \in Jobs, thrower \in Throwers : FfmpegCloseWith(j, thrower)
    \/ \E k \in 1..Len(mticks) : TickStep(k)

SpecBus == InitVideo /\ [][NextBus]_vars

\* Subscribe and unsubscribe requests racing with store mutations.
StoreClientUris == ClientUris \ VideoClientUris

NextSubs ==
    \/ Startup
    \/ \E uri \in StoreClientUris : Subscribe(uri)
    \/ \E uri \in StoreClientUris : Unsubscribe(uri)
    \/ \E id \in Ids : UpdateEntry(id)
    \/ \E id \in Ids : UpdateTag(id)
    \/ \E id \in Ids : DeleteEntry(id)
    \/ \E id \in Ids : DeleteTag(id)
    \/ \E e \in Ids, t \in Ids : AddTagToEntry(e, t)
    \/ \E i \in 1..Len(pubs) : HandlerStep(i)

SpecSubs == InitSubs /\ [][NextSubs]_vars

\* A client that awaits each tool call: a mutation is committed only when the
\* handlers of the previous change have finished.
NextSeq ==
    \/ Startup
    \/ \E id \in Ids : pubs = <<>> /\ CreateEntry(id)
    \/ \E id \in Ids : pubs = <<>> /\ UpdateEntry(id)
    \/ \E id \in Ids : pubs = <<>> /\ DeleteEntry(id)
    \/ \E id \in Ids : pubs = <<>> /\ CreateTag(id)
    \/ \E id \in Ids : pubs = <<>> /\ DeleteTag(id)
    \/ \E i \in 1..Len(pubs) : HandlerStep(i)

SpecSeq == Init /\ [][NextSeq]_vars

\* notifySubscribers() called on subscribers that subscribe or unsubscribe.
SpecNotify == InitNotify /\ [][NotifyReentrant]_vars

\* ./videos changed from outside, next to one render job and the changes of
\* one entry. The event loop runs every callback that is ready: startup, the
\* handlers of a publish, the job's own steps.
NextWatch ==
    \/ Startup
    \/ ExternalAddVideo(ExternalVideo)
    \/ \E f \in VideoFiles \cup {ExternalVideo} : ExternalRemoveVideo(f)
    \/ ExternalRemoveDirectory
    \/ \E uri \in VideoClientUris : Subscribe(uri)
    \/ pubs = <<>> /\ UpdateEntry(1)
    \/ \E i \in 1..Len(pubs) : HandlerStep(i)
    \/ CreateWrappedVideo(1, 2024, 0)
    \/ MkdirDone(1)
    \/ \E code \in ExitCodes : FfmpegExit(1, code)
    \/ FfmpegClose(1)
    \/ \E k \in 1..Len(mticks) : TickStep(k)

FairWatch ==
    /\ WF_vars(Startup)
    /\ WF_vars(\E i \in 1..Len(pubs) : HandlerStep(i))
    /\ WF_vars(\E k \in 1..Len(mticks) : TickStep(k))
    /\ WF_vars(MkdirDone(1) \/ FfmpegClose(1) \/ \E code \in ExitCodes : FfmpegExit(1, code))

SpecWatch == InitWatch /\ [][NextWatch]_vars /\ FairWatch

\* Tools called with any id, in the store or not, by a client that awaits
\* each call.
CallIds == Ids \cup {MaxId + 1}

NextTools ==
    \/ Startup
    \/ \E id \in Ids : pubs = <<>> /\ CreateEntry(id)
    \/ \E id \in Ids : pubs = <<>> /\ CreateTag(id)
    \/ \E id \in CallIds : GetEntry(id)
    \/ \E id \in CallIds : GetTag(id)
    \/ \E id \in CallIds : pubs = <<>> /\ UpdateEntry(id)
    \/ \E id \in CallIds : pubs = <<>> /\ DeleteEntry(id)
    \/ \E id \in CallIds : pubs = <<>> /\ UpdateTag(id)
    \/ \E id \in CallIds : pubs = <<>> /\ DeleteTag(id)
    \/ \E e \in CallIds, t \in CallIds : pubs = <<>> /\ AddTagToEntry(e, t)
    \/ \E id \in CallIds : EntryNotFound(id)
    \/ \E id \in CallIds : TagNotFound(id)
    \/ \E id \in CallIds : UpdateTagNotFound(id)
    \/ \E e \in CallIds, t \in CallIds : AddTagToEntryNotFound(e, t)
    \/ \E i \in 1..Len(pubs) : HandlerStep(i)

SpecTools == Init /\ [][NextTools]_vars

\* One suggestTagsSampling call and the changes it commits.
NextSampling ==
    \/ Startup
    \/ SamplingRequest
    \/ SamplingResponse
    \/ SamplingCreateTag
    \/ SamplingAddTag
    \/ SamplingReport
    \/ \E i \in 1..Len(pubs) : HandlerStep(i)

SpecSampling == InitSampling /\ [][NextSampling]_vars

\* Subscriptions and the dispatch of change descriptors of any content, one
\* publish at a time.
NextDesc ==
    \/ Startup
    \/ \E uri \in StoreClientUris : Subscribe(uri)
    \/ \E uri \in StoreClientUris : Unsubscribe(uri)
    \/ \E desc \in Descriptors : pubs = <<>> /\ PublishChange(desc)
    \/ \E i \in 1..Len(pubs) : HandlerStep(i)

SpecDesc == InitSubs /\ [][NextDesc]_vars

\* The scene construction of createWrappedVideo on its own.
SpecScene == InitScene /\ [][BuildScene]_vars

\* Subscribe and unsubscribe requests of several clients reaching the one
\* subscription set (server instances of one process share the module-level
\* set); a client unsubscribes from what it has subscribed to.
Clients == 1..MaxClients

NextClients ==
    \/ Startup
    \/ \E c \in Clients, uri \in StoreClientUris : SubscribeFrom(c, uri)
    \/ \E c \in Clients, uri \in StoreClientUris :
           <<c, uri>> \in wanted /\ UnsubscribeFrom(c, uri)
    \/ \E id \in Ids : pubs = <<>> /\ UpdateEntry(id)
    \/ \E i \in 1..Len(pubs) : HandlerStep(i)

SpecClients == InitSubs /\ [][NextClients]_vars

\* Subscribe and unsubscribe requests for every kind of URI, next to the
\* dispatch of store changes, committed one after the other, and of the
\* media-watcher tick of a render job.
NextFrame ==
    \/ Startup
    \/ \E uri \in ClientUris : Subscribe(uri)
    \/ \E uri \in ClientUris : Unsubscribe(uri)
    \/ pubs = <<>> /\ UpdateEntry(1)
    \/ pubs = <<>> /\ UpdateTag(1)
    \/ \E i \in 1..Len(pubs) : HandlerStep(i)
    \/ CreateWrappedVideo(1, 2024, 0)
    \/ MkdirDone(1)
    \/ FfmpegExit(1, 0)
    \/ FfmpegClose(1)
    \/ \E k \in 1..Len(mticks) : TickStep(k)

SpecFrame == InitSubs /\ [][NextFrame]_vars

\* ------------------------------------------------------------------ claims
Quiescent == phase = "running" /\ pubs = <<>>

\* C1: once every change handler has finished, each gated capability's flag
\* equals its predicate on the current store: suggest_tags and the entry
\* template iff an entry exists, the tag list and the tag template iff a tag
\* exists.
C1_FlagsMatchStore ==
    Quiescent =>
        /\ enabled["suggest_tags"] = (entries # {})
        /\ enabled["entry"] = (entries # {})
        /\ enabled["tags"] = (tags # {})
        /\ enabled["tag"] = (tags # {})

\* C2 (as stated): a store change sends a list-changed notification iff its
\* recompute flipped at least one flag.
C2_NotifiedIffFlipped ==
    \A i \in 1..Len(pubs) :
        pubs[i].h = "done" =>
            ((pubs[i].lc.prompts + pubs[i].lc.resources > 0)
                <=> (pubs[i].flips.prompts + pubs[i].flips.resources > 0))

\* C2 (amended): the recompute of a store change sends one list-changed per
\* flag it flips (prompts for suggest_tags, resources for the others), hence
\* none when no flag flips; besides these the store change itself sends
\* exactly one resources list-changed, flip or no flip.
C2_ListChangedPerFlip ==
    \A i \in 1..Len(pubs) :
        /\ pubs[i].lc.prompts = pubs[i].flips.prompts
        /\ pubs[i].lc.resources = 1 + pubs[i].flips.resources

\* C2 witnesses: a second entry was created, no flag flipped, and the change
\* still sent one resources list-changed.
C2_SecondEntryWitness ==
    \E i \in 1..Len(pubs) :
        /\ pubs[i].h = "done"
        /\ Cardinality(entries) = 2
        /\ pubs[i].desc.tags = <<>>
        /\ pubs[i].flips = Zero
        /\ pubs[i].lc = [prompts |-> 0, resources |-> 1]

\* The step is a step of the dispatch handler of publish i.
IsDispatchStep(i) ==
    /\ Len(pubs') = Len(pubs)
    /\ pubs[i].h = "dispatch"
    /\ pubs'[i] # pubs[i]

\* uri is the pending identity of publish i that the dispatch loop reaches
\* next and finds subscribed.
FirstSubscribedPending(i, uri) ==
    \E k \in 1..Len(pubs[i].rest) :
        /\ pubs[i].rest[k] = uri
        /\ uri \in uriSubscriptions
        /\ \A m \in 1..(k - 1) : pubs[i].rest[m] \notin uriSubscriptions

SentUpdated(notes, uri) == \E k \in 1..Len(notes) : notes[k] = UpdatedNote(uri)

\* C3: a dispatch of a change sends resources/updated for a URI iff the
\* change lists that identity and the URI is in the subscription set when
\* the loop reaches it; no other step of the store side sends one, so an
\* unsubscribed URI gets none.
C3_UpdatedIffSubscribed ==
    [][\A uri \in AllUris :
         /\ \A i \in 1..Len(pubs) :
               IsDispatchStep(i) =>
                   (SentUpdated(sent', uri) <=> FirstSubscribedPending(i, uri))
         /\ SentUpdated(sent', uri) =>
               /\ uri \in uriSubscriptions
               /\ \E i \in 1..Len(pubs) : IsDispatchStep(i)]_vars

\* C3 witness: entry 1's URI was subscribed, then unsubscribed, and a later
\* change of entry 1 has been dispatched without a notification for it.
C3_UnsubscribedWitness ==
    \E i \in 1..Len(pubs) :
        /\ pubs[i].h = "done"
        /\ pubs[i].desc.entries = <<1>>
        /\ pubs[i].upd = <<>>
        /\ \E k \in 1..Len(pubs) : k < i /\ pubs[k].upd = <<EntryUri(1)>>

\* C4: in the real path, once the signal has fired after the pre-flight
\* check the renderer process does not go on running un-killed, and the
\* job ends cancelled.
C4_AbortKillsRenderer ==
    \A j \in Jobs :
        (jobs[j].mockTime = 0 /\ jobs[j].aborted /\ ~jobs[j].preAborted) =>
            /\ jobs[j].proc = "running" => jobs[j].killed
            /\ jobs[j].pc = "done" => jobs[j].outcome.kind = "cancelled"

\* C5: a job whose renderer process has closed ends with the cancellation
\* error naming its year iff the signal was aborted at the close, whatever
\* the exit code; otherwise it ends as success (code 0) or as the failure
\* carrying the exit code.
C5_CancelledIffAbortedAtClose ==
    \A j \in Jobs :
        (jobs[j].pc = "done" /\ jobs[j].proc = "closed") =>
            /\ (jobs[j].outcome = Cancelled(jobs[j].year)) <=> jobs[j].closeAborted
            /\ (jobs[j].outcome.kind = "cancelled") <=> jobs[j].closeAborted
            /\ ~jobs[j].closeAborted =>
                  jobs[j].outcome = IF jobs[j].code = 0
                                    THEN Succeeded(jobs[j].year)
                                    ELSE Failed(jobs[j].year, jobs[j].code)

\* C5 witness: the process exited with code 0, the signal was aborted before
\* the close event, and the job ended cancelled.
C5_AbortedExitZeroWitness ==
    \E j \in Jobs :
        /\ jobs[j].pc = "done" /\ jobs[j].proc = "closed"
        /\ jobs[j].code = 0 /\ jobs[j].closeAborted
        /\ jobs[j].outcome = Cancelled(2025)

\* C6: a call with an already aborted signal ends at once with the
\* cancellation outcome: no process, no directory, no progress value, no
\* notifySubscribers, in real and in mock mode.
C6_PreAbortedDoesNothing ==
    \A j \in Jobs :
        jobs[j].preAborted =>
            /\ jobs[j].pc = "done"
            /\ jobs[j].outcome = Cancelled(jobs[j].year)
            /\ jobs[j].spawned = 0 /\ jobs[j].proc = "none"
            /\ ~jobs[j].mkdir
            /\ jobs[j].progress = <<>>
            /\ jobs[j].notified = 0

\* C6 witness: a real-mode call with an aborted signal has returned.
C6_PreAbortedWitness ==
    \E j \in Jobs :
        /\ jobs[j].preAborted /\ jobs[j].mockTime = 0
        /\ jobs[j].outcome = Cancelled(2024)
        /\ videos = {}

\* C7: a mock job whose signal fired before it returned ends cancelled.
C7_MockAbortCancels ==
    \A j \in Jobs :
        (jobs[j].mockTime > 0 /\ jobs[j].pc = "done" /\ jobs[j].aborted) =>
            jobs[j].outcome.kind = "cancelled"

\* C8: the values passed to onProgress are non-decreasing and lie in [0,1],
\* and the last one is 1 when the job succeeds.
C8_ProgressMonotone ==
    \A j \in Jobs :
        LET log == jobs[j].progress
        IN /\ \A k \in 1..Len(log) :
                 /\ 0 <= log[k].num /\ log[k].num <= log[k].den
                 /\ k > 1 => Leq(log[k - 1], log[k])
           /\ jobs[j].outcome.kind = "success" =>
                 (log # <<>> /\ Leq(One, log[Len(log)]))

\* C9: a job that has succeeded, in either mode, has called notifySubscribers.
C9_SuccessNotifies ==
    \A j \in Jobs :
        jobs[j].outcome.kind = "success" => jobs[j].notified >= 1

\* C10: once a media-watcher tick has been handled, the video template is
\* enabled iff the videos directory lists a file.
C10_VideoFlagAfterTick ==
    (/\ phase = "running" /\ mticks = <<>> /\ pubs = <<>>
     /\ \E j \in Jobs : jobs[j].notified > 0)
        => (enabled["video"] = (videos # {}))

\* C11: the recompute of initializeResources and of initializePrompts sets
\* every flag to its predicate on the initial store and sends no list-changed
\* notification, whatever the store and ./videos hold.
C11_StartupSilent ==
    /\ phase # "running" => sent = <<>>
    /\ phase \in {"initializePrompts", "connect"} =>
          /\ enabled["tags"] = (tags # {}) /\ enabled["tag"] = (tags # {})
          /\ enabled["entry"] = (entries # {})
          /\ enabled["video"] = (videos # {})
    /\ phase = "connect" => enabled["suggest_tags"] = (entries # {})

\* C11 witness: init() has finished on a store with a tag and no entry; the
\* entry template, the video template and the prompt were disabled silently.
C11_FlippedSilentlyWitness ==
    /\ phase = "connect" /\ sent = <<>>
    /\ entries = {} /\ tags = {1} /\ videos = {}
    /\ ~enabled["entry"] /\ ~enabled["video"] /\ ~enabled["suggest_tags"]
    /\ enabled["tags"]

\* The step is the if/else block of updatePrompts for publish i.
IsUpdatePromptsApply(i) ==
    /\ Len(pubs') = Len(pubs)
    /\ pubs[i].h = "updatePrompts" /\ pubs[i].pc = "apply"
    /\ pubs'[i].h = "dispatch"

SentPrompts(notes) ==
    \E k \in 1..Len(notes) : notes[k] = ListChangedNote("prompts")

\* The recompute of a change sends one prompts list-changed exactly when the
\* flag differs from the store's emptiness of entries, and sets the flag; no
\* other step sends one.
PromptNotePerFlip ==
    /\ \A i \in 1..Len(pubs) :
          IsUpdatePromptsApply(i) =>
              /\ enabled'["suggest_tags"] = (entries # {})
              /\ sent' = IF enabled["suggest_tags"] # (entries # {})
                         THEN <<ListChangedNote("prompts")>>
                         ELSE <<>>
    /\ SentPrompts(sent') => \E i \in 1..Len(pubs) : IsUpdatePromptsApply(i)

C13_AtMostOneListChangedPerRecompute == Len(sent) <= 1

Occurrences(seq, x) == Cardinality({k \in 1..Len(seq) : seq[k] = x})

\* A second subscribe leaves the set as it is, one unsubscribe after it
\* removes the URI, and a dispatch step sends at most one notification.
SubscribeTwiceAsOnce ==
    /\ \A uri \in AllUris :
          /\ (uri \in resubscribed' /\ uri \notin resubscribed) =>
                 uriSubscriptions' = uriSubscriptions
          /\ (uri \in resubscribed /\ uri \notin resubscribed') =>
                 uri \notin uriSubscriptions'
    /\ Len(sent') <= 1 \/ \A k \in 1..Len(sent') : sent'[k] \notin {UpdatedNote(u) : u \in AllUris}

\* C14: subscribing to a URI that is already subscribed changes nothing: the
\* set stays the same, a change of that identity notifies the URI once, and
\* one unsubscribe removes the membership.
C14_SubscribeIdempotent ==
    /\ [](\A i \in 1..Len(pubs), uri \in AllUris : Occurrences(pubs[i].upd, uri) <= 1)
    /\ [](resubscribed \subseteq uriSubscriptions)
    /\ [][SubscribeTwiceAsOnce]_vars

\* C14 witness: entry 1's URI was subscribed twice and a change of entry 1
\* has been dispatched with exactly one notification for it.
C14_SubscribedTwiceWitness ==
    /\ EntryUri(1) \in resubscribed
    /\ \E i \in 1..Len(pubs) :
          /\ pubs[i].h = "done"
          /\ pubs[i].desc = [entries |-> <<1>>, tags |-> <<>>]
          /\ pubs[i].upd = <<EntryUri(1)>>

\* A dispatch step that reaches a subscribed URI sends that one notification
\* and nothing else.
ExactlyOneUpdated ==
    \A i \in 1..Len(pubs) :
        IsDispatchStep(i) =>
            /\ Len(sent') <= 1
            /\ \A uri \in AllUris :
                  FirstSubscribedPending(i, uri) => sent' = <<UpdatedNote(uri)>>

\* C15: a change notifies only URIs of the identities its descriptor lists,
\* each at most once per listing and exactly once when the dispatch finds it
\* subscribed; the URI of entry x is never notified for a change of tag x,
\* nor the reverse, and no store change notifies a video URI.
C15_OnlyListedIdentities ==
    /\ [](\A i \in 1..Len(pubs) :
            /\ \A x \in Ids :
                  /\ Occurrences(pubs[i].upd, EntryUri(x))
                        <= Occurrences(pubs[i].desc.entries, x)
                  /\ Occurrences(pubs[i].upd, TagUri(x))
                        <= Occurrences(pubs[i].desc.tags, x)
            /\ \A v \in VideoFiles : Occurrences(pubs[i].upd, VideoUri(v)) = 0)
    /\ [][ExactlyOneUpdated]_vars

\* C15 witness: with the URIs of entry 1 and of tag 1 subscribed, a change of
\* tag 1 alone has notified the tag's URI and not the entry's.
C15_SameNumberWitness ==
    /\ {EntryUri(1), TagUri(1)} \subseteq uriSubscriptions
    /\ \E i \in 1..Len(pubs) :
          /\ pubs[i].h = "done"
          /\ pubs[i].desc = [entries |-> <<>>, tags |-> <<1>>]
          /\ pubs[i].upd = <<TagUri(1)>>

\* C16: a job that has reached its terminal outcome, on any path, has no
\* abort listener left on its signal.
C16_NoListenerAfterOutcome ==
    \A j \in Jobs : jobs[j].pc = "done" => ~jobs[j].listener

\* C16 witness: a job whose listener was registered (its process was
\* spawned) has failed with exit code 1.
C16_FailedJobWitness ==
    \E j \in Jobs :
        /\ jobs[j].pc = "done" /\ jobs[j].spawned = 1
        /\ jobs[j].outcome = Failed(2024, 1)
        /\ ~jobs[j].listener

\* C17: a job that has reported its terminal outcome has no renderer process
\* still running.
C17_NoProcessAfterOutcome ==
    \A j \in Jobs : jobs[j].pc = "done" => jobs[j].proc \in {"none", "closed"}

\* C17 witness: a job aborted in flight has ended cancelled, its process
\* killed and closed.
C17_KilledAndClosedWitness ==
    \E j \in Jobs :
        /\ jobs[j].pc = "done" /\ jobs[j].proc = "closed"
        /\ jobs[j].killed /\ jobs[j].code = -1
        /\ jobs[j].outcome.kind = "cancelled"

\* A step changes at most one job.
OneJobPerStep ==
    \A j \in Jobs, k \in Jobs :
        j # k => (jobs'[j] = jobs[j] \/ jobs'[k] = jobs[k])

\* C18: a job spawns at most one renderer process; a process is killed, and
\* a job cancelled, only by the job's own signal; no step changes two jobs.
C18_AbortIsPerJob ==
    /\ [](\A j \in Jobs :
            /\ jobs[j].spawned <= 1
            /\ jobs[j].killed => jobs[j].aborted
            /\ jobs[j].outcome.kind = "cancelled" => jobs[j].aborted)
    /\ [][OneJobPerStep]_vars

\* C18 witness: two jobs had their processes running; job 1 was aborted and
\* its process killed while job 2's process runs on, not aborted.
C18_OtherJobRunsOnWitness ==
    /\ jobs[1].aborted /\ jobs[1].killed /\ jobs[1].proc # "running"
    /\ jobs[2].proc = "running" /\ ~jobs[2].aborted /\ ~jobs[2].killed

\* The close step of job j.
IsCloseStep(j) == jobs[j].pc = "running" /\ jobs'[j].pc = "done"

\* A close with a non-zero code and no abort fails the job with that code,
\* reports no progress value and leaves the server running.
FailureCarriesCode ==
    \A j \in Jobs :
        (IsCloseStep(j) /\ ~jobs[j].aborted /\ jobs[j].code # 0) =>
            /\ jobs'[j].outcome = Failed(jobs[j].year, jobs[j].code)
            /\ jobs'[j].progress = jobs[j].progress
            /\ jobs'[j].notified = jobs[j].notified
            /\ phase' = "running"
            /\ \A k \in Jobs \ {j} : jobs'[k] = jobs[k]

C20_SubscriberFailureContained ==
    \A j \in Jobs :
        (jobs[j].proc = "closed" /\ jobs[j].code = 0 /\ ~jobs[j].closeAborted) =>
            /\ jobs[j].outcome = Succeeded(jobs[j].year)
            /\ jobs[j].invoked = Len(MediaSubscribers)

\* C21: a subscribe or unsubscribe made by a handler while a publish is in
\* flight does not change the handlers that publish invokes: it invokes the
\* handlers registered when it began, each once, in registration order.
C21_InFlightPublishUnchanged ==
    (call.fn = "notifySubscribers" /\ call.done) =>
        call.invoked = call.subscribers

\* C22: a publish starts each handler only after the previous one has
\* finished and completes only after all of them have finished: once a job
\* has returned from notifySubscribers(), no handler it started is running.
C22_PublishAwaitsHandlers ==
    \A j \in Jobs :
        (jobs[j].pc = "done" /\ jobs[j].notified > 0) => mticks = <<>>

\* C23: whenever a file is added to the videos directory by something other
\* than the render job, the subscribers of the media bus are eventually
\* invoked (the video dispatch handler is started).
C23_ExternalChangeObserved ==
    (videos # NoDirectory /\ ExternalVideo \in videos) ~> (mticks # <<>>)

\* A step that lists ./videos while it is unreadable reads the empty list:
\* startup and the recompute of a change take the video predicate as false,
\* the recompute then sets the flag it read, and the dispatch of a video
\* change finds nothing to notify; each handler goes on to its next step.
UnreadableReadsEmpty ==
    /\ (phase = "initializeResources" /\ phase' = "initializePrompts"
            /\ videos = NoDirectory) => ~enabled'["video"]
    /\ \A i \in 1..Len(pubs) :
          (Len(pubs') = Len(pubs) /\ pubs[i].h = "updateResources") =>
              /\ (pubs[i].pc = "videos" /\ pubs'[i].pc = "apply"
                      /\ videos = NoDirectory) => ~pubs'[i].hasVideos
              /\ (pubs[i].pc = "apply" /\ pubs'[i].h = "updatePrompts") =>
                      enabled'["video"] = pubs[i].hasVideos
    /\ \A k \in 1..Len(mticks) :
          (Len(mticks') = Len(mticks) /\ mticks[k].pc = "list"
              /\ mticks'[k].pc = "loop" /\ videos = NoDirectory) =>
                  mticks'[k].rest = <<>>

\* C24: when the videos directory cannot be read, listVideos returns the
\* empty list: a recompute or a video dispatch in that state completes and
\* treats the video predicate as false.
C24_UnreadableDirectoryIsEmpty == [][UnreadableReadsEmpty]_vars

\* C24 witness: the video flag is enabled, ./videos has become unreadable,
\* and the recompute of a change has listed it and read "no videos".
C24_UnreadableRecomputeWitness ==
    \E i \in 1..Len(pubs) :
        /\ pubs[i].h = "updateResources" /\ pubs[i].pc = "apply"
        /\ ~pubs[i].hasVideos
        /\ videos = NoDirectory
        /\ enabled["video"]

\* With an id the store does not hold, no id-taking tool reaches its
\* mutation, and the call is answered with the not-found error.
NotFoundStopsTool ==
    /\ \A id \in CallIds :
          /\ id \notin entries =>
                /\ ~ENABLED GetEntry(id)
                /\ ~ENABLED UpdateEntry(id)
                /\ ~ENABLED DeleteEntry(id)
                /\ phase = "running" => ENABLED EntryNotFound(id)
          /\ id \notin tags =>
                /\ ~ENABLED GetTag(id)
                /\ ~ENABLED UpdateTag(id)
                /\ ~ENABLED DeleteTag(id)
                /\ phase = "running" => ENABLED TagNotFound(id) /\ ENABLED UpdateTagNotFound(id)
    /\ \A e \in CallIds, t \in CallIds :
          (e \notin entries \/ t \notin tags) =>
                /\ ~ENABLED AddTagToEntry(e, t)
                /\ phase = "running" => ENABLED AddTagToEntryNotFound(e, t)

\* A not-found answer names an id the store does not hold and comes with no
\* store mutation and no publish; a publish lists only ids the store held
\* before the call or holds after it.
NotFoundChangesNothing ==
    /\ \A id \in CallIds :
          /\ sent' = <<ErrorResult(EntryNotFoundError(id))>> =>
                id \notin entries /\ UNCHANGED <<entries, tags, pubs, nMutations>>
          /\ sent' = <<ErrorResult(TagNotFoundError(id))>> =>
                id \notin tags /\ UNCHANGED <<entries, tags, pubs, nMutations>>
    /\ Len(pubs') > Len(pubs) =>
          LET desc == pubs'[Len(pubs')].desc
          IN /\ \A k \in 1..Len(desc.entries) : desc.entries[k] \in entries \cup entries'
             /\ \A k \in 1..Len(desc.tags) : desc.tags[k] \in tags \cup tags'

Malformed(result) ==
    \/ ~ResultSchemaOk(result)
    \/ ~JsonParse(result.text).ok
    \/ ~ResponseSchemaOk(JsonParse(result.text))

\* C26: when the response suggestTagsSampling receives is malformed, the call
\* fails with an error, the failure reported to the client carries the raw
\* response, and no tag is created and none is added to the entry.
C26_MalformedReportedWithResponse ==
    (call.fn = "suggestTagsSampling" /\ call.requests = 1 /\ Malformed(call.result)) =>
        /\ call.pc \in {"createMessage", "threw"}
        /\ nMutations = 0
        /\ call.pc = "threw" => call.reported = <<call.result.text>>

\* C27: for one publish, each subscribed identity receives at most one point
\* notification, even when the descriptor lists its id more than once.
C27_OneNotePerIdentityPerPublish ==
    \A i \in 1..Len(pubs), uri \in AllUris : Occurrences(pubs[i].upd, uri) <= 1

\* A dispatch step that notifies an identity for one publish finds no later
\* publish that has already notified the same identity.
InPublishOrder ==
    \A i \in 1..Len(pubs), uri \in AllUris :
        (IsDispatchStep(i) /\ SentUpdated(sent', uri)) =>
            \A k \in (i + 1)..Len(pubs) :
                \A n \in 1..Len(pubs[k].upd) : pubs[k].upd[n] # uri

\* C28: of two publishes that implicate the same subscribed identity, the
\* notification of the earlier publish is handed to the transport before the
\* notification of the later one, whatever else the earlier descriptor lists
\* and however the dispatch handlers interleave.
C28_SameIdentityInPublishOrder == [][InPublishOrder]_vars

\* The index of the first entry of es whose length is `length`.
FirstWithLength(es, length) ==
    CHOOSE k \in 1..Len(es) :
        /\ es[k].length = length
        /\ \A m \in 1..(k - 1) : es[m].length # length

IsOverlay(texts, text) == \E k \in 1..Len(texts) : texts[k] = text

\* C29: for a non-empty entry list the longest entry is the first entry, in
\* input order, with the maximum content length and the shortest the first
\* with the minimum; for the empty list neither is chosen and the 'did not
\* write any entries' overlay is produced.
C29_FirstLongestFirstShortest ==
    (call.fn = "createWrappedVideo" /\ call.done) =>
        LET es == call.entries
            lengths == {es[k].length : k \in 1..Len(es)}
            max == CHOOSE x \in lengths : \A y \in lengths : y <= x
            min == CHOOSE x \in lengths : \A y \in lengths : x <= y
        IN IF es = <<>>
           THEN /\ call.longest = <<>> /\ call.shortest = <<>>
                /\ IsOverlay(call.texts, "no entries")
                /\ ~IsOverlay(call.texts, "longest")
                /\ ~IsOverlay(call.texts, "shortest")
           ELSE /\ call.longest = <<es[FirstWithLength(es, max)]>>
                /\ call.shortest = <<es[FirstWithLength(es, min)]>>
                /\ ~IsOverlay(call.texts, "no entries")
                /\ IsOverlay(call.texts, "longest")
                /\ IsOverlay(call.texts, "shortest")

\* C29 witness: a call whose entries hold two of the maximum length and two
\* of the minimum length, the first of each pair chosen over the second.
C29_TiesWitness ==
    /\ call.fn = "createWrappedVideo" /\ call.done
    /\ call.longest # <<>> /\ call.shortest # <<>>
    /\ call.longest[1].length > call.shortest[1].length
    /\ \E k \in 1..Len(call.entries) :
          k > call.longest[1].id /\ call.entries[k].length = call.longest[1].length
    /\ \E k \in 1..Len(call.entries) :
          k > call.shortest[1].id /\ call.entries[k].length = call.shortest[1].length

\* C30: a URI is in the registry exactly when at least one client has
\* subscribed to it and not since unsubscribed; with two clients subscribed
\* to a URI, it stays registered after one of them unsubscribes.
C30_RegisteredWhileWanted ==
    uriSubscriptions = {uri \in AllUris : \E c \in Clients : <<c, uri>> \in wanted}

\* The ids of the tags this call created.
CreatedIds == {call.created[k].id : k \in 1..Len(call.created)}

\* C31: every tag id suggestTagsSampling adds to the entry is the id of a tag
\* that existed before the call and the entry did not bear, or the id of a
\* tag created during the call; no id is added twice; and a well-formed
\* response for an existing entry never makes the call fail, whatever ids it
\* suggests (unknown and already applied ids are dropped).
C31_AddsOnlyNewOrUnappliedTags ==
    call.fn = "suggestTagsSampling" =>
        /\ \A k \in 1..Len(call.applied) :
              \/ call.applied[k] \in CreatedIds
              \/ /\ call.applied[k] \in tags \ CreatedIds
                 /\ call.applied[k] \notin call.entryTags
        /\ \A k, l \in 1..Len(call.applied) :
              call.applied[k] = call.applied[l] => k = l
        /\ call.pc = "threw" =>
              (Malformed(call.result) \/ call.entryId \notin entries)

\* The call has ended after adding a tag to the entry and dropping a
\* suggested id (unknown, or already applied).
C31_DroppedAndAddedWitness ==
    /\ call.fn = "suggestTagsSampling" /\ call.pc = "done"
    /\ call.applied # <<>>
    /\ \E k \in 1..Len(call.result.text.items) :
          /\ call.result.text.items[k].kind = "id"
          /\ \A l \in 1..Len(call.applied) :
                call.applied[l] # call.result.text.items[k].id

\* The name a tag of the store bears: the name it was created with in this
\* call, or the name it had before.
TagNameInStore(id) ==
    IF id \in CreatedIds
    THEN call.created[CHOOSE k \in 1..Len(call.created) : call.created[k].id = id].name
    ELSE TagName(id)

\* C32: processing a model response never leaves two tags with one name:
\* a suggested name that an existing tag bears is resolved to that tag, and
\* a new name suggested several times in one response is created once.
C32_NoDuplicateTagNames ==
    call.fn = "suggestTagsSampling" =>
        \A s \in tags, t \in tags :
            TagNameInStore(s) = TagNameInStore(t) => s = t

\* C33: when the client does not advertise the sampling capability,
\* suggestTagsSampling returns without sending a sampling request, without
\* reading or mutating the store, and without raising an error.
C33_NoSamplingNoWork ==
    (call.fn = "suggestTagsSampling" /\ ~call.client.sampling) =>
        /\ call.pc \in {"called", "returned"}
        /\ call.requests = 0
        /\ call.reads = 0
        /\ nMutations = 0 /\ pubs = <<>>
        /\ call.created = <<>> /\ call.applied = <<>>

\* The call has returned for a client without sampling, and for an entry id
\* the store does not hold: the lookup that would have failed was not made.
C33_ReturnedForMissingEntryWitness ==
    /\ call.fn = "suggestTagsSampling" /\ call.pc = "returned"
    /\ ~call.client.sampling
    /\ call.entryId \notin entries

\* C34: after initialisation, wherever control is back at the event loop, the
\* tag list resource and the tag template resource have the same enabled
\* flag.
C34_TagFlagsAgree ==
    phase # "initializeResources" => enabled["tags"] = enabled["tag"]

\* A recompute that followed a mutation has disabled both tag resources.
C34_BothDisabledWitness ==
    /\ phase = "running" /\ nMutations > 0
    /\ ~enabled["tags"] /\ ~enabled["tag"]
    /\ \E i \in 1..Len(pubs) :
          pubs[i].desc.tags # <<>> /\ pubs[i].flips.resources >= 2

\* A step of the video dispatch k: its `await listVideos()` resolving, and a
\* run of its loop.
IsTickListStep(k) ==
    /\ Len(mticks') = Len(mticks)
    /\ mticks[k].pc = "list" /\ mticks'[k].pc = "loop"

IsTickLoopStep(k) ==
    /\ mticks[k].pc = "loop"
    /\ \/ mticks' = RemoveAt(mticks, k)
       \/ Len(mticks') = Len(mticks) /\ mticks'[k] # mticks[k]

\* uri is the listed file of dispatch k that the loop reaches next and finds
\* subscribed.
FirstSubscribedListed(k, uri) ==
    \E n \in 1..Len(mticks[k].rest) :
        /\ mticks[k].rest[n] = uri
        /\ uri \in uriSubscriptions
        /\ \A m \in 1..(n - 1) : mticks[k].rest[m] \notin uriSubscriptions

VideoUris == {VideoUri(f) : f \in VideoFiles \cup {ExternalVideo}}

\* One dispatch walks the files the directory listed when it read it, each
\* once, and notifies the one it has reached iff its URI is subscribed then.
TickNotifiesListedSubscribed ==
    \A k \in 1..Len(mticks) :
        /\ IsTickListStep(k) =>
              /\ mticks'[k].videos = ReaddirOrEmpty(videos)
              /\ mticks'[k].rest = MapVideoUri(mticks'[k].videos)
              /\ sent' = <<>>
        /\ IsTickLoopStep(k) =>
              \A uri \in VideoUris :
                  /\ SentUpdated(sent', uri) <=> FirstSubscribedListed(k, uri)
                  /\ FirstSubscribedListed(k, uri) => sent' = <<UpdatedNote(uri)>>

\* C35: on a media-watcher tick the subscription dispatch sends exactly one
\* resources/updated for every file the directory lists whose URI is
\* subscribed, whichever file changed, none for a subscribed video URI whose
\* file is not listed, and none for an unsubscribed one.
C35_TickNotifiesListedSubscribed ==
    /\ [](\A k \in 1..Len(mticks) : \A uri \in VideoUris :
            Occurrences(mticks[k].upd, uri)
                <= Occurrences(MapVideoUri(mticks[k].videos), uri))
    /\ [][TickNotifiesListedSubscribed]_vars
    /\ [][\A uri \in VideoUris :
            SentUpdated(sent', uri) =>
                /\ uri \in uriSubscriptions
                /\ \E k \in 1..Len(mticks) : IsTickLoopStep(k)]_vars

\* A dispatch that listed two files has notified the subscribed one; the
\* other, which is not subscribed, is the one a render job has just written.
C35_OneOfTwoListedWitness ==
    \E k \in 1..Len(mticks) :
        /\ mticks[k].pc = "loop"
        /\ Len(mticks[k].videos) = 2
        /\ mticks[k].upd = <<VideoUri(VideoFilename(2024))>>
        /\ mticks[k].rest = <<VideoUri(VideoFilename(2025))>>
        /\ VideoUri(VideoFilename(2025)) \notin uriSubscriptions
        /\ \A j \in Jobs : jobs[j].pc # "idle" => jobs[j].year = 2025

\* C36: a render job in real mode invokes the media-watcher subscribers
\* exactly once if it succeeds, when the renderer process has closed with
\* code 0 and the abort listener has been removed, and never if it is still
\* running or has ended cancelled or failed.
C36_NotifiesOnceOnSuccessOnly ==
    \A j \in Jobs :
        jobs[j].mockTime = 0 =>
            /\ jobs[j].notified <= 1
            /\ jobs[j].notified = 1 <=>
                  (jobs[j].pc = "done" /\ jobs[j].outcome = Succeeded(jobs[j].year))
            /\ jobs[j].notified = 1 =>
                  /\ jobs[j].proc = "closed" /\ jobs[j].code = 0
                  /\ ~jobs[j].listener
                  /\ jobs[j].invoked = Len(MediaSubscribers)
            /\ jobs[j].notified = 0 => jobs[j].invoked = 0

\* One real-mode job has succeeded and notified once; another has failed
\* with exit code 1 and has notified nobody.
C36_SucceededAndFailedWitness ==
    \E j \in Jobs, k \in Jobs :
        /\ jobs[j].mockTime = 0 /\ jobs[j].pc = "done"
        /\ jobs[j].outcome = Succeeded(jobs[j].year) /\ jobs[j].notified = 1
        /\ jobs[k].mockTime = 0 /\ jobs[k].pc = "done" /\ jobs[k].spawned = 1
        /\ jobs[k].outcome = Failed(jobs[k].year, 1) /\ jobs[k].notified = 0

\* A step of the dispatch of a store change or of a media-watcher tick.
IsAnyDispatchStep ==
    \/ \E i \in 1..Len(pubs) : IsDispatchStep(i)
    \/ \E k \in 1..Len(mticks) : IsTickListStep(k) \/ IsTickLoopStep(k)

\* A step that changes the subscription set changes the membership of one
\* URI and nothing else: it sends nothing, flips no capability flag, and is
\* no step of a publish or of a tick.
OnlyRequestedUri ==
    uriSubscriptions' # uriSubscriptions =>
        /\ \E uri \in ClientUris :
              /\ (uri \in uriSubscriptions') # (uri \in uriSubscriptions)
              /\ \A u \in AllUris \cup VideoUris :
                    u # uri => ((u \in uriSubscriptions') <=> (u \in uriSubscriptions))
        /\ sent' = <<>>
        /\ UNCHANGED <<enabled, pubs, mticks, entries, tags, videos, jobs>>

\* The handlers of the two requests, taken as they are called.
RequestFrame ==
    \A uri \in ClientUris :
        /\ (Subscribe(uri) \/ Unsubscribe(uri)) =>
              /\ sent' = <<>>
              /\ UNCHANGED <<enabled, pubs, mticks>>
              /\ uriSubscriptions' \ {uri} = uriSubscriptions \ {uri}
        /\ Subscribe(uri) => uri \in uriSubscriptions'
        /\ Unsubscribe(uri) => uri \notin uriSubscriptions'
        /\ (uri \notin uriSubscriptions /\ Unsubscribe(uri)) =>
              UNCHANGED <<uriSubscriptions, enabled, pubs, mticks, entries, tags,
                          videos, jobs>>

\* C37: dispatching a store change or a media-watcher tick leaves the
\* subscription set unchanged; a subscribe or unsubscribe request changes
\* only the membership of the requested URI, sends no notification and
\* leaves every capability flag and every other URI's membership unchanged;
\* unsubscribing a URI that is not subscribed is accepted and changes nothing.
C37_SubscriptionFrame ==
    /\ [][IsAnyDispatchStep => uriSubscriptions' = uriSubscriptions]_vars
    /\ [][OnlyRequestedUri]_vars
    /\ [][RequestFrame]_vars
    /\ [](phase = "running" => \A uri \in ClientUris : ENABLED Unsubscribe(uri))

\* With a change of entry 1 and a tick both being dispatched, one URI was
\* unsubscribed and the two others are still subscribed.
C37_UnsubscribedAmongOthersWitness ==
    /\ uriSubscriptions = {TagUri(1), VideoUri(VideoFilename(2024))}
    /\ <<1, EntryUri(1)>> \notin wanted
    /\ \E i \in 1..Len(pubs) : pubs[i].upd = <<EntryUri(1)>>
    /\ \E k \in 1..Len(mticks) : mticks[k].upd = <<VideoUri(VideoFilename(2024))>>

====
